---- MODULE Spec2Model ----
(***************************************************************************)
(* The Mentor Gap-Quiz engine of ai-powered-quizing, client side: the       *)
(* mentor page that requests a gap quiz, the quiz session (GapQuiz page)    *)
(* started from it, and the result handed to the results page.              *)
(***************************************************************************)
EXTENDS Integers, Sequences, FiniteSets, TLC

VARIABLES
    page,            \* the route that is mounted: "mentor" | "quiz" | "results"
    event,           \* the last step taken: [kind, arg]
    \* Mentor page
    analysis,        \* useState(null)
    quiz,            \* useState(null); then location.state.quiz of the session
    loading,         \* useState(true)
    generating,      \* useState(false)
    error,           \* useState(null)
    includeHints,    \* useState(false)
    generateExtra,   \* useState(false)
    extraCount,      \* useState(5)
    request,         \* the mentorAPI call that is awaited: "none" when there is none
    inFlight,        \* the generate-quiz requests sent and not yet answered
    \* GapQuiz page
    effectPending,   \* TRUE until the mount effect (prepare and shuffle) has run
    questions,       \* useState([])    the prepared, shuffled questions
    currentIndex,    \* useState(0)
    answers,         \* useState({})    index -> AnswerRecord
    selectedAnswer,  \* useState(null)
    showFeedback,    \* useState(false)
    result,          \* the state handed to the results route by navigate()
    \* Functions evaluated on their own
    calc,            \* [fn, in, out]: the call under evaluation, out once it returned
    \* Mentor service (gap quiz cache)
    store,           \* the gap_quizzes collection: the documents saved so far
    reqs,            \* the generate-quiz requests received, each with the call serving it
    genCalls,        \* the calls of ai_service.generate_gap_quiz made so far
    \* FileUpload component
    files,           \* useState([])    the files accepted so far
    errors           \* useState([])    the messages of the last selection

mentorVars == <<analysis, loading, generating, error, includeHints, generateExtra,
                extraCount, request, inFlight>>

sessionVars == <<questions, currentIndex, answers, selectedAnswer, showFeedback>>

clientVars == <<page, event, quiz, mentorVars, effectPending, sessionVars, result>>

serverVars == <<store, reqs, genCalls>>

uploadVars == <<files, errors>>

\* What the pages of the client never touch.
otherVars == <<calc, serverVars, uploadVars>>

vars == <<clientVars, otherVars>>

(***************************************************************************)
(* Bounds of the model.                                                     *)
(***************************************************************************)
\* The largest number of questions (review plus extra) of a quiz.
MaxQuestions == 2

\* The largest number of questions of a quiz whose score is evaluated on its own.
MaxTotal == 44

\* The largest number of generate-quiz requests the mentor service receives.
MaxRequests == 3

\* The largest number of weak areas a key is made of.
MaxAreas == 3

\* The largest number of progress records of a learner's history.
MaxRecords == 4

\* The largest number of extra questions asked of the generation capability
\* when a quiz is composed on its own.
MaxExtra == 2

(***************************************************************************)
(* JavaScript values.  A value carries its type, so that === between a      *)
(* boolean and a string is false, as in the language.                       *)
(***************************************************************************)
JsNull == <<"null", "null">>
JsStr(s) == <<"string", s>>
JsBool(b) == <<"boolean", IF b THEN "true" ELSE "false">>

\* a === b
StrictEq(a, b) == a = b

\* An optional field: <<>> when undefined, <<v>> when it holds v.
Undefined == <<>>
Some(v) == <<v>>

(***************************************************************************)
(* Strings whose characters matter are sequences of one-character strings.  *)
(***************************************************************************)
Alphabet == << "A", "B", "C", "D", "E", "F" >>

\* String.fromCharCode(code), for the codes of the letters the page uses.
fromCharCode(code) == IF code - 64 \in 1..Len(Alphabet) THEN Alphabet[code - 64] ELSE "?"

RECURSIVE DropSpaces(_)
\* The \s* of the prefix pattern: leading white space removed.
DropSpaces(s) == IF Len(s) > 0 /\ s[1] = " " THEN DropSpaces(Tail(s)) ELSE s

\* opt.replace(/^[A-D]\)\s*/, '')
StripPrefix(opt) ==
    IF Len(opt) >= 2 /\ opt[1] \in {"A", "B", "C", "D"} /\ opt[2] = ")"
    THEN DropSpaces(SubSeq(opt, 3, Len(opt)))
    ELSE opt

(***************************************************************************)
(* The quizzes a session can be started from.                               *)
(***************************************************************************)
OptA == << "A", ")", " ", "x" >>
OptB == << "B", ")", " ", "y" >>
OptBare == << "z" >>

\* The shapes of the questions the backend sends: type, options, correct_answer
\* (a letter for multiple choice; a boolean or 'True' / 'False' for true/false).
QuestionShapes ==
    { [question_type |-> "mcq", options |-> Some(<<OptA, OptB>>), correct_answer |-> JsStr("B")],
      [question_type |-> "mcq", options |-> Some(<<OptB, OptBare>>), correct_answer |-> JsStr("A")],
      [question_type |-> "mcq", options |-> Undefined, correct_answer |-> JsStr("A")],
      [question_type |-> "true_false", options |-> Undefined, correct_answer |-> JsBool(TRUE)],
      [question_type |-> "true_false", options |-> Undefined, correct_answer |-> JsBool(FALSE)],
      [question_type |-> "true_false", options |-> Undefined, correct_answer |-> JsStr("True")],
      [question_type |-> "true_false", options |-> Undefined, correct_answer |-> JsStr("False")] }

\* A review question (an entry of quiz.wrong_answers), the n-th of its list.
ReviewQuestion(shape, n) ==
    [question_id |-> <<"w", n>>, question_type |-> shape.question_type,
     options |-> shape.options, correct_answer |-> shape.correct_answer]

\* An extra question (an entry of quiz.extra_questions), the n-th of its list.
ExtraQuestion(shape, n) ==
    [id |-> <<"e", n>>, question_type |-> shape.question_type,
     options |-> shape.options, correct_answer |-> shape.correct_answer]

ShapeLists(n) == [1..n -> QuestionShapes]

Quizzes ==
    { [wrong_answers |-> [i \in 1..Len(w) |-> ReviewQuestion(w[i], i)],
       extra_questions |-> [i \in 1..Len(e) |-> ExtraQuestion(e[i], i)]] :
        <<w, e>> \in UNION { ShapeLists(nw) \X ShapeLists(ne) :
                      <<nw, ne>> \in { p \in (0..MaxQuestions) \X (0..MaxQuestions) :
                                         p[1] + p[2] <= MaxQuestions } } }

\* The analyses the backend sends, by the fields the pages read.
Analyses ==
    { [mentor_available |-> m, total_wrong_answers |-> n] : m \in BOOLEAN, n \in 0..1 }

\* course?.language || 'en': the course the mentor page builds holds topic,
\* difficulty and slug, and no language.
language == "en"

(***************************************************************************)
(* utils/translations.js                                                    *)
(***************************************************************************)
\* translations[language] || translations.en
translations(lang) ==
    IF lang = "ar" THEN [true |-> "sahih", false |-> "khati"]
    ELSE [true |-> "True", false |-> "False"]

\* getTrueFalseOptions(language): the value is canonical, the label translated.
getTrueFalseOptions(lang) ==
    << [value |-> JsStr("True"), label |-> translations(lang).true],
       [value |-> JsStr("False"), label |-> translations(lang).false] >>

(***************************************************************************)
(* GapQuiz: preparing the questions on mount.                               *)
(***************************************************************************)
\* q.options?.map(opt => opt.replace(...)) || []
PreparedOptions(options) ==
    IF options = Undefined THEN <<>>
    ELSE [i \in 1..Len(options[1]) |-> StripPrefix(options[1][i])]

\* q.question_type === 'true_false' ? (q.correct_answer === true ? 'True' : 'False')
\*                                  : q.correct_answer
PreparedCorrectAnswer(q) ==
    IF q.question_type = "true_false"
    THEN (IF StrictEq(q.correct_answer, JsBool(TRUE)) THEN JsStr("True") ELSE JsStr("False"))
    ELSE q.correct_answer

\* The element of wrongAnswerQuestions made from q.
PrepareWrongAnswer(q) ==
    [id |-> q.question_id, type |-> q.question_type,
     options |-> PreparedOptions(q.options),
     correct_answer |-> PreparedCorrectAnswer(q), source |-> "wrong_answer"]

\* The element of extraQuestions made from q.
PrepareExtra(q) ==
    [id |-> q.id, type |-> q.question_type,
     options |-> PreparedOptions(q.options),
     correct_answer |-> PreparedCorrectAnswer(q), source |-> "extra"]

\* allQuestions = [...wrongAnswerQuestions, ...extraQuestions]
AllQuestions(qz) ==
    [i \in 1..Len(qz.wrong_answers) |-> PrepareWrongAnswer(qz.wrong_answers[i])]
    \o [i \in 1..Len(qz.extra_questions) |-> PrepareExtra(qz.extra_questions[i])]

Bijections(n) == { p \in [1..n -> 1..n] : \A i, j \in 1..n : p[i] = p[j] => i = j }

\* Mutant of Shuffles: every place draws a random question, so one can repeat.
ShufflesWithRepeats(all) ==
    { [i \in 1..Len(all) |-> all[p[i]]] : p \in [1..Len(all) -> 1..Len(all)] }

\* allQuestions.sort(() => Math.random() - 0.5): the comparator is random, so
\* the outcome is any rearrangement of the array.
Shuffles(all) == { [i \in 1..Len(all) |-> all[p[i]]] : p \in Bijections(Len(all)) }

(***************************************************************************)
(* GapQuiz: what a render derives from the state.                           *)
(***************************************************************************)
totalQuestions == Len(questions)

\* questions[currentIndex]; read only where the card is rendered.
currentQuestion == questions[currentIndex + 1]

\* Neither the no-questions state nor the spinner is shown.
CardRendered == page = "quiz" /\ Len(questions) # 0 /\ currentIndex < Len(questions)

\* Mutant of optionLetter: the letter is taken one place off.
optionLetterOffByOne(idx) == fromCharCode(65 + idx + 1)

\* String.fromCharCode(65 + idx)
optionLetter(idx) == fromCharCode(65 + idx)

\* The values of the answer buttons of the card, in rendering order.
OptionButtons ==
    IF ~CardRendered THEN <<>>
    ELSE IF currentQuestion.type = "mcq"
         THEN [k \in 1..Len(currentQuestion.options) |-> JsStr(optionLetter(k - 1))]
         ELSE [k \in 1..Len(getTrueFalseOptions(language)) |->
                  getTrueFalseOptions(language)[k].value]

\* disabled={showFeedback} of the answer buttons
OptionButtonsDisabled == showFeedback

\* Mutant of NextButtonRendered: the button is shown whatever showFeedback is.
NextButtonAlways == CardRendered

\* {!showFeedback ? <Submit Answer> : <Next Question | See Results>}
SubmitButtonRendered == CardRendered /\ ~showFeedback
NextButtonRendered == CardRendered /\ showFeedback

\* disabled={selectedAnswer === null}
SubmitButtonDisabled == StrictEq(selectedAnswer, JsNull)

(***************************************************************************)
(* GapQuiz: the handlers.                                                   *)
(***************************************************************************)
\* Mutant of AnswerRecord: the record is scored against the first question.
AnswerRecordOfFirst(selected, q) ==
    [selected |-> selected, correct |-> questions[1].correct_answer,
     isCorrect |-> StrictEq(selected, questions[1].correct_answer)]

\* { selected, correct, isCorrect } as both handlers build it
AnswerRecord(selected, q) ==
    [selected |-> selected, correct |-> q.correct_answer,
     isCorrect |-> StrictEq(selected, q.correct_answer)]

\* Mutant of Put: the record is stored one index further.
PutAtNext(prev, idx, rec) ==
    [k \in (DOMAIN prev) \cup {idx + 1} |-> IF k = idx + 1 THEN rec ELSE prev[k]]

\* { ...prev, [idx]: rec }
Put(prev, idx, rec) ==
    [k \in (DOMAIN prev) \cup {idx} |-> IF k = idx THEN rec ELSE prev[k]]

handleAnswerSelect(answer) ==
    IF showFeedback
    THEN UNCHANGED sessionVars
    ELSE /\ selectedAnswer' = answer
         /\ UNCHANGED <<questions, currentIndex, answers, showFeedback>>

\* Mutant of handleSubmitAnswer: feedback is shown, the record is not stored.
handleSubmitAnswerNoRecord ==
    IF StrictEq(selectedAnswer, JsNull)
    THEN UNCHANGED sessionVars
    ELSE /\ showFeedback' = TRUE
         /\ UNCHANGED <<questions, currentIndex, answers, selectedAnswer>>

handleSubmitAnswer ==
    IF StrictEq(selectedAnswer, JsNull)
    THEN UNCHANGED sessionVars
    ELSE /\ answers' = Put(answers, currentIndex, AnswerRecord(selectedAnswer, currentQuestion))
         /\ showFeedback' = TRUE
         /\ UNCHANGED <<questions, currentIndex, selectedAnswer>>

\* Mutants of HasNextQuestion: the comparison is off by one, either way.
HasNextQuestionInclusive == currentIndex < totalQuestions
HasNextQuestionEarly == currentIndex < totalQuestions - 2

\* currentIndex < totalQuestions - 1
HasNextQuestion == currentIndex < totalQuestions - 1

\* Mutant of FinalAnswers: the last record is recomputed as not correct.
FinalAnswersRescored ==
    Put(answers, currentIndex,
        [AnswerRecord(selectedAnswer, currentQuestion) EXCEPT !.isCorrect = FALSE])

\* The answers of the state navigate() hands to the results route.
FinalAnswers == Put(answers, currentIndex, AnswerRecord(selectedAnswer, currentQuestion))

\* Mutant of NextIndex: the advance skips a question.
NextIndexSkip(prev) == prev + 2

\* setCurrentIndex((prev) => prev + 1)
NextIndex(prev) == prev + 1

\* Mutant of SelectionOfNextQuestion: the selection is carried over.
SelectionCarriedOver == selectedAnswer

\* setSelectedAnswer(null)
SelectionOfNextQuestion == JsNull

handleNextQuestion ==
    IF HasNextQuestion
    THEN /\ currentIndex' = NextIndex(currentIndex)
         /\ selectedAnswer' = SelectionOfNextQuestion
         /\ showFeedback' = FALSE
         /\ UNCHANGED <<questions, answers, page, result>>
    ELSE /\ page' = "results"
         /\ result' = Some([quiz |-> quiz[1], questions |-> questions, answers |-> FinalAnswers])
         /\ UNCHANGED sessionVars

(***************************************************************************)
(* Mentor: what a render derives from the state.                            *)
(***************************************************************************)
\* Neither the loading state nor the error state is shown.
MentorMainRendered ==
    page = "mentor" /\ ~loading /\ ~(error # Undefined /\ analysis = Undefined)

\* {!quiz && (<Quiz Options & Generate Button>)}
GeneratePanelRendered == MentorMainRendered /\ quiz = Undefined

\* analysis?.total_wrong_answers === 0
NoWrongAnswers == analysis # Undefined /\ analysis[1].total_wrong_answers = 0

\* Mutant of GenerateButtonDisabled: the button stays live while generating.
GenerateButtonLiveWhileGenerating == NoWrongAnswers /\ ~generateExtra

\* disabled={generating || (analysis?.total_wrong_answers === 0 && !generateExtra)}
GenerateButtonDisabled == generating \/ (NoWrongAnswers /\ ~generateExtra)

\* Mutant of StartButtonRendered: the card is shown before any quiz is there.
StartButtonWithoutQuiz == MentorMainRendered

\* {quiz && (<Quiz Ready Card>)}
StartButtonRendered == MentorMainRendered /\ quiz # Undefined

\* The options of the extra-question count select.
ExtraCounts == {3, 5, 10, 15, 20}

(***************************************************************************)
(* Mentor: the steps.                                                       *)
(***************************************************************************)
Ev(kind, arg) == [kind |-> kind, arg |-> arg]

\* useState initial values of the GapQuiz page.
NoAnswers == [k \in {} |-> JsNull]

SessionInitial ==
    /\ questions = <<>>
    /\ currentIndex = 0
    /\ answers = NoAnswers
    /\ selectedAnswer = JsNull
    /\ showFeedback = FALSE

\* fetchAnalysis: the request succeeds.
FetchAnalysisDone ==
    /\ page = "mentor" /\ request = "getAnalysis"
    /\ \E a \in Analyses : analysis' = Some(a)
    /\ loading' = FALSE
    /\ request' = "none"
    /\ UNCHANGED inFlight
    /\ event' = Ev("analysis", 0)
    /\ UNCHANGED <<page, quiz, generating, error, includeHints, generateExtra, extraCount,
                   effectPending, sessionVars, result>>
    /\ UNCHANGED otherVars

\* fetchAnalysis: the request fails.
FetchAnalysisFailed ==
    /\ page = "mentor" /\ request = "getAnalysis"
    /\ error' = Some("Failed to load mentor analysis")
    /\ loading' = FALSE
    /\ request' = "none"
    /\ UNCHANGED inFlight
    /\ event' = Ev("analysisFailed", 0)
    /\ UNCHANGED <<page, quiz, analysis, generating, includeHints, generateExtra, extraCount,
                   effectPending, sessionVars, result>>
    /\ UNCHANGED otherVars

\* The learner changes a quiz option of the generate panel.
ChangeOption ==
    /\ GeneratePanelRendered
    /\ \/ includeHints' = ~includeHints /\ UNCHANGED <<generateExtra, extraCount>>
       \/ generateExtra' = ~generateExtra /\ UNCHANGED <<includeHints, extraCount>>
       \/ /\ generateExtra
          /\ \E n \in ExtraCounts : extraCount' = n
          /\ UNCHANGED <<includeHints, generateExtra>>
    /\ event' = Ev("option", 0)
    /\ UNCHANGED <<page, quiz, analysis, loading, generating, error, request, inFlight,
                   effectPending, sessionVars, result>>
    /\ UNCHANGED otherVars

\* handleGenerateQuiz, up to the await.
handleGenerateQuiz ==
    /\ generating' = TRUE
    /\ error' = Undefined
    /\ request' = "generateQuiz"
    /\ inFlight' = inFlight + 1

\* The learner tries to generate: the handler runs if the button is there and enabled.
ClickGenerate ==
    /\ page = "mentor"
    /\ event' = Ev("generate", 0)
    /\ IF GeneratePanelRendered /\ ~GenerateButtonDisabled
       THEN handleGenerateQuiz
       ELSE UNCHANGED <<generating, error, request, inFlight>>
    /\ UNCHANGED <<page, quiz, analysis, loading, includeHints, generateExtra, extraCount,
                   effectPending, sessionVars, result>>
    /\ UNCHANGED otherVars

\* What is awaited once one generate-quiz request has been answered.
AwaitedAfterAnswer == IF inFlight > 1 THEN "generateQuiz" ELSE "none"

\* handleGenerateQuiz, after the await: the response has arrived.
GenerateQuizDone ==
    /\ page = "mentor" /\ request = "generateQuiz"
    /\ \E a \in Analyses : analysis' = Some(a)
    /\ \E q \in Quizzes : quiz' = Some(q)
    /\ generating' = FALSE
    /\ inFlight' = inFlight - 1
    /\ request' = AwaitedAfterAnswer
    /\ event' = Ev("quiz", 0)
    /\ UNCHANGED <<page, loading, error, includeHints, generateExtra, extraCount,
                   effectPending, sessionVars, result>>
    /\ UNCHANGED otherVars

\* handleGenerateQuiz, after the await: the request has failed.
GenerateQuizFailed ==
    /\ page = "mentor" /\ request = "generateQuiz"
    /\ error' = Some("Failed to generate quiz")
    /\ generating' = FALSE
    /\ inFlight' = inFlight - 1
    /\ request' = AwaitedAfterAnswer
    /\ event' = Ev("quizFailed", 0)
    /\ UNCHANGED <<page, quiz, analysis, loading, includeHints, generateExtra, extraCount,
                   effectPending, sessionVars, result>>
    /\ UNCHANGED otherVars

\* useState initial values of the Mentor page; the page's state once it is unmounted.
MentorInitial ==
    /\ analysis = Undefined
    /\ loading = TRUE
    /\ generating = FALSE
    /\ error = Undefined
    /\ includeHints = FALSE
    /\ generateExtra = FALSE
    /\ extraCount = 5

\* handleStartQuiz: the quiz route is mounted with the quiz in location.state,
\* and the Mentor page is unmounted (its state is gone).
handleStartQuiz ==
    /\ page' = "quiz"
    /\ analysis' = Undefined
    /\ loading' = TRUE
    /\ generating' = FALSE
    /\ error' = Undefined
    /\ includeHints' = FALSE
    /\ generateExtra' = FALSE
    /\ extraCount' = 5
    /\ request' = "none"
    /\ inFlight' = 0
    /\ effectPending' = TRUE

\* The learner tries to start the quiz: the handler runs if the button is there.
ClickStartQuiz ==
    /\ page = "mentor"
    /\ event' = Ev("start", 0)
    /\ IF StartButtonRendered
       THEN handleStartQuiz
       ELSE UNCHANGED <<page, mentorVars, effectPending>>
    /\ UNCHANGED <<quiz, sessionVars, result>>
    /\ UNCHANGED otherVars

(***************************************************************************)
(* GapQuiz: the steps, the mount effect and the learner's gestures.         *)
(***************************************************************************)
\* useEffect(..., [quiz]): prepare and shuffle, once after the first render.
PrepareQuestions ==
    /\ page = "quiz" /\ effectPending
    /\ effectPending' = FALSE
    /\ questions' \in Shuffles(AllQuestions(quiz[1]))
    /\ event' = Ev("mount", 0)
    /\ UNCHANGED <<page, quiz, mentorVars, currentIndex, answers, selectedAnswer,
                   showFeedback, result>>
    /\ UNCHANGED otherVars

\* Mutant of SelectOption: the answer buttons stay live while feedback is shown.
SelectOptionUnlocked ==
    /\ page = "quiz" /\ ~effectPending
    /\ \E k \in 1..Len(OptionButtons) :
          /\ event' = Ev("select", k - 1)
          /\ selectedAnswer' = OptionButtons[k]
          /\ UNCHANGED <<questions, currentIndex, answers, showFeedback>>
    /\ UNCHANGED <<page, quiz, mentorVars, effectPending, result>>
    /\ UNCHANGED otherVars

\* The learner presses the k-th answer button of the card.
SelectOption ==
    /\ page = "quiz" /\ ~effectPending
    /\ \E k \in 1..Len(OptionButtons) :
          /\ event' = Ev("select", k - 1)
          /\ IF OptionButtonsDisabled
             THEN UNCHANGED sessionVars
             ELSE handleAnswerSelect(OptionButtons[k])
    /\ UNCHANGED <<page, quiz, mentorVars, effectPending, result>>
    /\ UNCHANGED otherVars

\* The learner tries to submit: the handler runs if the button is there and enabled.
ClickSubmit ==
    /\ page = "quiz" /\ ~effectPending
    /\ event' = Ev("submit", 0)
    /\ IF SubmitButtonRendered /\ ~SubmitButtonDisabled
       THEN handleSubmitAnswer
       ELSE UNCHANGED sessionVars
    /\ UNCHANGED <<page, quiz, mentorVars, effectPending, result>>
    /\ UNCHANGED otherVars

\* The learner tries to advance: the handler runs if the button is there.
ClickNext ==
    /\ page = "quiz" /\ ~effectPending
    /\ event' = Ev("next", 0)
    /\ IF NextButtonRendered
       THEN handleNextQuestion
       ELSE UNCHANGED <<sessionVars, page, result>>
    /\ UNCHANGED <<quiz, mentorVars, effectPending>>
    /\ UNCHANGED otherVars

(***************************************************************************)
(* GapQuizResults: what the results page derives from location.state.       *)
(***************************************************************************)
\* if (!questions || !answers) return <Navigate .../>: otherwise the page shows.
ResultsRendered == page = "results" /\ result # Undefined

\* const { quiz, questions, answers, ... } = location.state
resultQuestions == result[1].questions
resultAnswers == result[1].answers

\* Mutant of ResultsTotalQuestions: the questions left without a record.
ResultsTotalUnanswered == Len(resultQuestions) - Cardinality(DOMAIN resultAnswers)

\* const totalQuestions = questions.length (of the results page)
ResultsTotalQuestions == Len(resultQuestions)

\* Object.values(answers).filter((a) => a.isCorrect).length
correctCount == Cardinality({ k \in DOMAIN resultAnswers : resultAnswers[k].isCorrect })

\* Mutant of MathRound: the fraction is dropped.
MathFloor(num, den) == num \div den

\* Math.round(x) for x = num / den >= 0: the integer nearest to x, a half going
\* up.
MathRound(num, den) == (2 * num + den) \div (2 * den)

\* (correct / total) * 100 is computed in double precision.  For total < 80 the
\* double differs from the exact quotient by less than its distance to the
\* nearest half, or is the exact half, but for 23 / 40: (23 / 40) * 100 is
\* 57.49999999999999 where the exact quotient is 57.5.
FloatBelowHalf == { <<23, 40>> }

\* Math.round((correctCount / totalQuestions) * 100)
ScorePercentOf(correct, total) ==
    IF <<correct, total>> \in FloatBelowHalf
    THEN MathRound(correct * 100, total) - 1
    ELSE MathRound(correct * 100, total)

scorePercent == ScorePercentOf(correctCount, ResultsTotalQuestions)

\* getScoreInfo: the message chosen by the score.
getScoreInfo(percent) ==
    IF percent >= 80 THEN "Excellent improvement!"
    ELSE IF percent >= 60 THEN "Good progress!"
    ELSE "Keep practicing!"

\* questions.filter((q) => q.source === 'wrong_answer')
wrongAnswerQuestions == SelectSeq(resultQuestions, LAMBDA q : q.source = "wrong_answer")

\* questions.filter((q) => q.source === 'extra')
extraQuestions == SelectSeq(resultQuestions, LAMBDA q : q.source = "extra")

\* arr.indexOf(q): the first index (from 0) holding q, -1 when there is none.
\* The questions are distinct objects and distinct values here (their ids
\* differ), so the same object and the same value are one thing.
indexOf(arr, q) ==
    IF \E i \in 1..Len(arr) : arr[i] = q
    THEN (CHOOSE i \in 1..Len(arr) : arr[i] = q /\ \A j \in 1..(i - 1) : arr[j] # q) - 1
    ELSE -1

\* Mutant of originalIdx: the index within the filtered list.
filteredIdx(q, idx) == idx

\* const originalIdx = questions.indexOf(q), in a filter callback (q, idx)
originalIdx(q, idx) == indexOf(resultQuestions, q)

\* answers[originalIdx]?.isCorrect
IsCorrectAt(i) == i \in DOMAIN resultAnswers /\ resultAnswers[i].isCorrect

\* qs.filter((q, idx) => answers[questions.indexOf(q)]?.isCorrect).length
CountCorrect(qs) ==
    Cardinality({ i \in 1..Len(qs) : IsCorrectAt(originalIdx(qs[i], i - 1)) })

wrongAnswerCorrect == CountCorrect(wrongAnswerQuestions)

extraCorrect == CountCorrect(extraQuestions)

(***************************************************************************)
(* The client: the pages from the mentor page to the results.               *)
(***************************************************************************)
\* No function is under evaluation.
CalcIdle == [fn |-> "none", in |-> <<>>, out |-> Undefined]

\* The mentor service has served nothing.
ServerIdle == store = {} /\ reqs = <<>> /\ genCalls = {}

\* The upload control holds no file and shows no message.
UploadIdle == files = <<>> /\ errors = <<>>

\* The Mentor page is mounted and its mount effect awaits the analysis.
ClientInitial ==
    /\ page = "mentor"
    /\ event = Ev("none", 0)
    /\ quiz = Undefined
    /\ MentorInitial
    /\ request = "getAnalysis"
    /\ inFlight = 0
    /\ effectPending = FALSE
    /\ SessionInitial
    /\ result = Undefined

Init ==
    /\ ClientInitial
    /\ calc = CalcIdle
    /\ ServerIdle
    /\ UploadIdle

Next ==
    \/ FetchAnalysisDone
    \/ FetchAnalysisFailed
    \/ ChangeOption
    \/ ClickGenerate
    \/ GenerateQuizDone
    \/ GenerateQuizFailed
    \/ ClickStartQuiz
    \/ PrepareQuestions
    \/ SelectOption
    \/ ClickSubmit
    \/ ClickNext

Spec == Init /\ [][Next]_vars

(***************************************************************************)
(* Mentor service: the weak areas key.                                      *)
(***************************************************************************)
Digits == << "0", "1", "2", "3", "4", "5", "6", "7", "8", "9" >>

\* str(n) for an integer n >= 0: its decimal digits.
RECURSIVE str(_)
str(n) == IF n < 10 THEN << Digits[n + 1] >> ELSE str(n \div 10) \o << Digits[(n % 10) + 1] >>

\* sorted(xs): ascending, every element kept.
RECURSIVE sorted(_)
sorted(xs) ==
    IF xs = <<>> THEN <<>>
    ELSE LET i == CHOOSE k \in 1..Len(xs) : \A j \in 1..Len(xs) : xs[k] <= xs[j]
         IN << xs[i] >> \o sorted(SubSeq(xs, 1, i - 1) \o SubSeq(xs, i + 1, Len(xs)))

\* Mutant of join: the parts are put together without the separator.
RECURSIVE joinWithoutSeparator(_, _)
joinWithoutSeparator(sep, parts) ==
    IF parts = <<>> THEN <<>>
    ELSE parts[1] \o joinWithoutSeparator(sep, Tail(parts))

\* sep.join(parts)
RECURSIVE join(_, _)
join(sep, parts) ==
    IF parts = <<>> THEN <<>>
    ELSE IF Len(parts) = 1 THEN parts[1]
    ELSE parts[1] \o sep \o join(sep, Tail(parts))

\* [wa.chapter_number for wa in weak_areas]
ChapterNumbers(weak_areas) == [i \in 1..Len(weak_areas) |-> weak_areas[i].chapter_number]

\* chapters = sorted([...]); return "-".join(map(str, chapters))
generate_weak_areas_key(weak_areas) ==
    LET chapters == sorted(ChapterNumbers(weak_areas))
    IN join(<< "-" >>, [i \in 1..Len(chapters) |-> str(chapters[i])])

(***************************************************************************)
(* Mentor service: is the mentor available.                                 *)
(***************************************************************************)
\* settings.mentor_chapters_threshold
mentor_chapters_threshold == 3

\* The chapter numbers met in the histories and weak areas evaluated here.
ChapterChoices == { 1, 2, 12 }

\* The chapters completed: a record counts its chapter when it holds at least
\* one answer; the chapter of several records is counted once.
RECURSIVE CompletedChapters(_)
CompletedChapters(progress_records) ==
    IF progress_records = <<>> THEN {}
    ELSE LET rec == Head(progress_records)
             rest == CompletedChapters(Tail(progress_records))
         IN IF Len(rec.answers) > 0 THEN rest \cup { rec.chapter_number } ELSE rest

total_chapters_completed(progress_records) == Cardinality(CompletedChapters(progress_records))

\* Mutant of is_mentor_available: the threshold itself is not enough.
is_mentor_available_above(chapters_completed) == chapters_completed > mentor_chapters_threshold

\* Check if chapters_completed >= threshold
is_mentor_available(chapters_completed) == chapters_completed >= mentor_chapters_threshold

\* The elements of a set of numbers, ascending.
RECURSIVE Ascending(_)
Ascending(S) ==
    IF S = {} THEN <<>>
    ELSE LET m == CHOOSE x \in S : \A y \in S : x <= y
         IN << m >> \o Ascending(S \ {m})

\* mentor_weak_score_threshold: float = 0.7, in hundredths as the scores are.
mentor_weak_score_threshold == 70

\* The scores of the records evaluated here, in hundredths: below, at and
\* above the threshold.
ScoreChoices == { 50, 70, 90 }

\* Mutant of IsWeakRecord: a score at the threshold is weak too.
IsWeakRecordAtThreshold(rec) ==
    Len(rec.answers) > 0 /\ rec.score <= mentor_weak_score_threshold

\* A chapter is weak iff its score < threshold; a chapter with zero answers is
\* skipped entirely.
IsWeakRecord(rec) ==
    Len(rec.answers) > 0 /\ rec.score < mentor_weak_score_threshold

\* Find chapters with score < mentor_weak_score_threshold, emitted in ascending
\* chapter_number order.
identify_weak_chapters(progress_records) ==
    LET weak == { i \in DOMAIN progress_records : IsWeakRecord(progress_records[i]) }
        chapters == Ascending({ progress_records[i].chapter_number : i \in weak })
        recordOf(ch) == progress_records[CHOOSE i \in weak :
                                            progress_records[i].chapter_number = ch]
    IN [k \in DOMAIN chapters |->
           [chapter_number |-> chapters[k], score |-> recordOf(chapters[k]).score]]

(***************************************************************************)
(* Mentor service: the generate-quiz endpoint and the gap quiz cache.       *)
(***************************************************************************)
\* The learners, and what analyze_user_progress finds for each: the weak
\* chapters in ascending order, each with the questions answered wrongly.
Learners == { "ann", "bob", "cat" }

WeakAreasOf(user) ==
    CASE user = "ann" -> << [chapter_number |-> 1, wrong_answers |-> << "a1" >>] >>
      [] user = "bob" -> << [chapter_number |-> 1, wrong_answers |-> << "b1", "b2" >>] >>
      [] user = "cat" -> << [chapter_number |-> 2, wrong_answers |-> << "c1" >>] >>

CourseSlugs == { "python-a7x3k2" }

\* max_questions of GenerateGapQuizRequest: none, or the default.
MaxQuestionsChoices == { 0, 15 }

\* The review set: one question per wrong answer of every weak area, in
\* chapter order, tagged wrong_answer.
RECURSIVE ReviewSet(_)
ReviewSet(weak_areas) ==
    IF weak_areas = <<>> THEN <<>>
    ELSE LET wa == Head(weak_areas)
         IN [i \in 1..Len(wa.wrong_answers) |->
                [source |-> "wrong_answer", source_chapter |-> wa.chapter_number,
                 question_text |-> wa.wrong_answers[i]]]
            \o ReviewSet(Tail(weak_areas))

\* The questions a generation call returns: they differ from call to call.
Generated(r) == << [source |-> "extra", source_chapter |-> 0, question_text |-> <<"gen", r>>] >>

\* What the generation capability answers to the call of request r for up to m
\* questions: it raises (an error, a timeout), or returns a list of 0..m items.
GenerationResponses(r, m) ==
    { [raised |-> TRUE, items |-> <<>>], [raised |-> FALSE, items |-> <<>>] }
    \cup (IF m > 0 THEN { [raised |-> FALSE, items |-> Generated(r)] } ELSE {})

\* Mutant of ZeroItemsRejected: an empty response is taken as it is.
ZeroItemsAccepted(m, weak_areas, items) == FALSE

\* A response of zero items is refused when extra questions were asked for and
\* weak concepts exist.
ZeroItemsRejected(m, weak_areas, items) == m > 0 /\ weak_areas # <<>> /\ items = <<>>

Triple(course_slug, weak_areas_key, include_hints) ==
    [course_slug |-> course_slug, weak_areas_key |-> weak_areas_key,
     include_hints |-> include_hints]

\* Mutant of TripleOf: the hints flag is left out of the identity.
TripleOfHintsOff(d) == Triple(d.course_slug, d.weak_areas_key, FALSE)

\* The values of the indexed fields of a document.
TripleOf(d) == Triple(d.course_slug, d.weak_areas_key, d.include_hints)

\* The triple a request looks up.
RequestTriple(q) == Triple(q.course_slug, q.weak_areas_key, q.include_hints)

\* Mutant of get_gap_quiz_by_course: nothing is ever found.
get_gap_quiz_never(course_slug, weak_areas_key, include_hints) == Undefined

\* get_gap_quiz_by_course: the cached gap quiz if it exists.
get_gap_quiz_by_course(course_slug, weak_areas_key, include_hints) ==
    LET found == { d \in store : TripleOf(d) = Triple(course_slug, weak_areas_key, include_hints) }
    IN IF found = {} THEN Undefined ELSE Some(CHOOSE d \in found : TRUE)

\* Mutant of DuplicateKey: the insert is never refused.
NoDuplicateKey(doc) == FALSE

\* The unique compound index rejects a second document of a triple.
DuplicateKey(doc) == \E d \in store : TripleOf(d) = TripleOf(doc)

\* Mutant of ResponseFails: zero items fail whenever extras were asked for.
ResponseFailsWithoutConcepts(m, weak_areas, resp) ==
    resp.raised \/ (m > 0 /\ resp.items = <<>>)

\* The response ends the compose in GenerationFailure.
ResponseFails(m, weak_areas, resp) ==
    resp.raised \/ ZeroItemsRejected(m, weak_areas, resp.items)

\* The generation ends in GenerationFailure.
GenerationFails(q, resp) == ResponseFails(q.max_questions, WeakAreasOf(q.user), resp)

\* Mutant of ComposeQuestions: the items generated are put first.
ComposeExtrasFirst(weak_areas, items) == items \o ReviewSet(weak_areas)

\* The questions of a new quiz: the review set, then the items generated.
ComposeQuestions(weak_areas, items) == ReviewSet(weak_areas) \o items

\* The gap quiz made for request q of the items generated.
NewQuiz(q, items) ==
    [course_slug |-> q.course_slug, weak_areas_key |-> q.weak_areas_key,
     include_hints |-> q.include_hints,
     questions |-> ComposeQuestions(WeakAreasOf(q.user), items)]

\* Mutant of AfterGenerationError: the call is made once more.
RetryAfterGenerationError(q) == IF q.gen_calls < 2 THEN "generate" ELSE "failed"

\* ai_service.generate_gap_quiz raises: nothing catches it, the request fails.
AfterGenerationError(q) == "failed"

\* Mutant of AfterHit: a hit is refreshed by a new generation.
RegenerateAfterHit == "generate"

\* if cached_quiz: the cached quiz is returned, after the feedback is made.
AfterHit == "feedback"

SetReq(r, q) == reqs' = [reqs EXCEPT ![r] = q]

\* POST /{course_slug}/generate-quiz, as it arrives: the analysis of the user
\* is made, the key is made of its weak areas, and the cache is about to be
\* looked up.
Arrived(u, c, h, m) ==
    [user |-> u, course_slug |-> c, include_hints |-> h, max_questions |-> m,
     weak_areas_key |-> generate_weak_areas_key(WeakAreasOf(u)),
     pc |-> "lookup", cached_quiz |-> Undefined, new_quiz |-> Undefined,
     gen_calls |-> 0, saves |-> 0, response |-> Undefined, error |-> Undefined]

Requests ==
    { Arrived(u, c, h, m) :
        u \in Learners, c \in CourseSlugs, h \in BOOLEAN, m \in MaxQuestionsChoices }

\* An order of the requests, to name them: the names of the requests do not
\* matter, so they are numbered in this order.
Rank(q) ==
    (CHOOSE k \in 1..3 : << "ann", "bob", "cat" >>[k] = q.user) * 100
    + (IF q.include_hints THEN 50 ELSE 0) + q.max_questions

\* The requests the service has received; when each is served is open.
ServerInit ==
    /\ ClientInitial
    /\ calc = CalcIdle
    /\ UploadIdle
    /\ store = {}
    /\ genCalls = {}
    /\ reqs \in { rs \in [1..MaxRequests -> Requests] :
                    \A i \in 1..(MaxRequests - 1) : Rank(rs[i]) <= Rank(rs[i + 1]) }

\* cached_quiz = await get_gap_quiz_by_course(...)
Lookup(r) ==
    /\ reqs[r].pc = "lookup"
    /\ LET t == RequestTriple(reqs[r])
           cached_quiz == get_gap_quiz_by_course(t.course_slug, t.weak_areas_key, t.include_hints)
       IN SetReq(r, [reqs[r] EXCEPT !.cached_quiz = cached_quiz,
                                    !.pc = IF cached_quiz # Undefined THEN AfterHit
                                                                      ELSE "generate"])
    /\ UNCHANGED <<store, genCalls, clientVars, calc, uploadVars>>

\* return MentorFeedbackResponse(feedback=await ai_service.generate_feedback(...),
\*                               quiz=cached_quiz, cached=True)
ReturnCached(r) ==
    /\ reqs[r].pc = "feedback"
    /\ SetReq(r, [reqs[r] EXCEPT !.response = Some([quiz |-> reqs[r].cached_quiz[1],
                                                     cached |-> TRUE]),
                                 !.pc = "done"])
    /\ UNCHANGED <<store, genCalls, clientVars, calc, uploadVars>>

\* The call of ai_service.generate_gap_quiz that request r makes.
GenerationCall(r) ==
    [by |-> r, call |-> reqs[r].gen_calls + 1, triple |-> RequestTriple(reqs[r]),
     max_questions |-> reqs[r].max_questions]

\* Mutant of Generate: a failed generation still saves the review questions.
GenerateSavingPartial(r) ==
    /\ reqs[r].pc = "generate"
    /\ genCalls' = genCalls \cup { GenerationCall(r) }
    /\ LET q == [reqs[r] EXCEPT !.gen_calls = @ + 1]
       IN \E resp \in GenerationResponses(r, q.max_questions) :
            IF GenerationFails(q, resp)
            THEN /\ SetReq(r, [q EXCEPT !.error = Some("GenerationFailure"),
                                        !.pc = AfterGenerationError(q)])
                 /\ store' = store \cup { NewQuiz(q, <<>>) }
            ELSE /\ SetReq(r, [q EXCEPT !.new_quiz = Some(NewQuiz(q, resp.items)),
                                        !.pc = "save"])
                 /\ UNCHANGED store
    /\ UNCHANGED <<clientVars, calc, uploadVars>>

\* new_quiz = await ai_service.generate_gap_quiz(...): it returns a quiz or
\* raises; nothing is saved before it has returned.
Generate(r) ==
    /\ reqs[r].pc = "generate"
    /\ genCalls' = genCalls \cup { GenerationCall(r) }
    /\ LET q == [reqs[r] EXCEPT !.gen_calls = @ + 1]
       IN \E resp \in GenerationResponses(r, q.max_questions) :
            IF GenerationFails(q, resp)
            THEN SetReq(r, [q EXCEPT !.error = Some("GenerationFailure"),
                                     !.pc = AfterGenerationError(q)])
            ELSE SetReq(r, [q EXCEPT !.new_quiz = Some(NewQuiz(q, resp.items)),
                                     !.pc = "save"])
    /\ UNCHANGED <<store, clientVars, calc, uploadVars>>

\* Mutant of AfterDuplicateKey: the quiz is generated once more.
RegenerateAfterDuplicateKey(q) == IF q.gen_calls < 2 THEN "generate" ELSE "failed"

\* save_gap_quiz raises: nothing catches it, the request fails.
AfterDuplicateKey(q) == "failed"

\* await save_gap_quiz(new_quiz); return MentorFeedbackResponse(..., cached=False)
\* The insert is refused when the index holds the triple, and nothing catches
\* the error.
SaveAndReturn(r) ==
    /\ reqs[r].pc = "save"
    /\ LET q == [reqs[r] EXCEPT !.saves = @ + 1]
       IN IF DuplicateKey(q.new_quiz[1])
          THEN /\ SetReq(r, [q EXCEPT !.error = Some("DuplicateKeyError"),
                                      !.pc = AfterDuplicateKey(q)])
               /\ UNCHANGED store
          ELSE /\ store' = store \cup { q.new_quiz[1] }
               /\ SetReq(r, [q EXCEPT !.response = Some([quiz |-> q.new_quiz[1],
                                                         cached |-> FALSE]),
                                      !.pc = "done"])
    /\ UNCHANGED <<genCalls, clientVars, calc, uploadVars>>

ServerNext ==
    \/ \E r \in DOMAIN reqs : Lookup(r)
    \/ \E r \in DOMAIN reqs : ReturnCached(r)
    \/ \E r \in DOMAIN reqs : Generate(r)
    \/ \E r \in DOMAIN reqs : SaveAndReturn(r)

ServerSpec == ServerInit /\ [][ServerNext]_vars

(***************************************************************************)
(* Functions evaluated on their own: a call with its arguments, then the    *)
(* value it returns.                                                        *)
(***************************************************************************)
Call(fn, in) == [fn |-> fn, in |-> in, out |-> Undefined]

\* (correctCount, totalQuestions) of a results page that shows a score.
ScoreInputs == { <<c, t>> \in (0..MaxTotal) \X (1..MaxTotal) : c <= t }

Returned(fn) == calc.fn = fn /\ calc.out # Undefined

\* Sequences of at most n elements of S.
SeqsUpTo(S, n) == UNION { [1..k -> S] : k \in 0..n }

Range(f) == { f[i] : i \in DOMAIN f }

\* Two lists of weak areas of the same chapters, in any order and with any
\* repetition.
KeyInputs ==
    LET lists == SeqsUpTo([chapter_number : ChapterChoices], MaxAreas)
    IN { p \in lists \X lists : Range(p[1]) = Range(p[2]) }

\* Any two lists of weak areas.
KeyPairInputs ==
    LET lists == SeqsUpTo([chapter_number : ChapterChoices], MaxAreas)
    IN lists \X lists

\* The progress records of a learner: the chapter and the answers given.
ProgressHistories ==
    SeqsUpTo([chapter_number : ChapterChoices, answers : { <<>>, << "x" >> }], MaxRecords)

\* Progress histories with scores: one record for a chapter, in any order.
ScoredHistories ==
    { h \in SeqsUpTo([chapter_number : ChapterChoices, score : ScoreChoices,
                      answers : { <<>>, << "x" >> }], MaxAreas) :
        \A i, j \in DOMAIN h : i # j => h[i].chapter_number # h[j].chapter_number }

\* The weak areas of an analysis: chapters in ascending order, each with one or
\* two wrong answers.
ComposeWeakAreas ==
    UNION { { [i \in 1..Len(Ascending(S)) |->
                 [chapter_number |-> Ascending(S)[i], wrong_answers |-> w[Ascending(S)[i]]]] :
              w \in [S -> { << "w1" >>, << "w1", "w2" >> }] } :
            S \in SUBSET ChapterChoices }

\* k items of a generation response, in the order they are returned.
Items(k) == [i \in 1..k |-> [source |-> "extra", source_chapter |-> 0,
                              question_text |-> <<"gen", i>>]]

\* A compose on a miss: the weak areas, max_extra_questions, and what the
\* generation capability answers (it raises, or returns 0..m items).
ComposeInputs ==
    { [weak_areas |-> wa, max_extra_questions |-> m, response |-> resp] :
        wa \in ComposeWeakAreas,
        <<m, resp>> \in UNION { {m} \X ({ [raised |-> TRUE, items |-> <<>>] }
                                        \cup { [raised |-> FALSE, items |-> Items(k)] : k \in 0..m }) :
                                m \in 0..MaxExtra } }

\* The results page computes its score and picks its message.
EvalScore ==
    /\ calc.fn = "score" /\ calc.out = Undefined
    /\ LET percent == ScorePercentOf(calc.in[1], calc.in[2])
       IN calc' = [calc EXCEPT !.out = Some([percent |-> percent,
                                              message |-> getScoreInfo(percent)])]
    /\ UNCHANGED <<clientVars, serverVars, uploadVars>>

\* The key of each of the two lists is made.
EvalKey ==
    /\ calc.fn = "key" /\ calc.out = Undefined
    /\ calc' = [calc EXCEPT !.out = Some(<< generate_weak_areas_key(calc.in[1]),
                                            generate_weak_areas_key(calc.in[2]) >>)]
    /\ UNCHANGED <<clientVars, serverVars, uploadVars>>

\* The keys of two lists of weak areas are made, as for two requests.
EvalKeyPair ==
    /\ calc.fn = "key_pair" /\ calc.out = Undefined
    /\ calc' = [calc EXCEPT !.out = Some(<< generate_weak_areas_key(calc.in[1]),
                                            generate_weak_areas_key(calc.in[2]) >>)]
    /\ UNCHANGED <<clientVars, serverVars, uploadVars>>

\* The analyzer counts the chapters completed and sets mentor_available.
EvalAvailable ==
    /\ calc.fn = "available" /\ calc.out = Undefined
    /\ calc' = [calc EXCEPT !.out =
                   Some([total_chapters_completed |-> total_chapters_completed(calc.in),
                         mentor_available |->
                             is_mentor_available(total_chapters_completed(calc.in))])]
    /\ UNCHANGED <<clientVars, serverVars, uploadVars>>

\* The analyzer lists the weak areas of a history.
EvalWeakAreas ==
    /\ calc.fn = "weak_areas" /\ calc.out = Undefined
    /\ calc' = [calc EXCEPT !.out = Some(identify_weak_chapters(calc.in))]
    /\ UNCHANGED <<clientVars, serverVars, uploadVars>>

\* The composer makes the quiz of a miss, or fails.
EvalCompose ==
    /\ calc.fn = "compose" /\ calc.out = Undefined
    /\ LET in == calc.in
           failed == ResponseFails(in.max_extra_questions, in.weak_areas, in.response)
       IN calc' = [calc EXCEPT !.out =
                      Some([failed |-> failed,
                            weak_areas_key |-> generate_weak_areas_key(in.weak_areas),
                            questions |-> IF failed THEN <<>>
                                          ELSE ComposeQuestions(in.weak_areas,
                                                                in.response.items)])]
    /\ UNCHANGED <<clientVars, serverVars, uploadVars>>

CalcInit ==
    /\ ClientInitial
    /\ ServerIdle
    /\ UploadIdle
    /\ calc \in { Call("score", i) : i \in ScoreInputs }
                \cup { Call("key", i) : i \in KeyInputs }
                \cup { Call("available", i) : i \in ProgressHistories }
                \cup { Call("compose", i) : i \in ComposeInputs }
                \cup { Call("weak_areas", i) : i \in ScoredHistories }
                \cup { Call("key_pair", i) : i \in KeyPairInputs }

CalcNext ==
    \/ EvalScore
    \/ EvalKey
    \/ EvalAvailable
    \/ EvalCompose
    \/ EvalWeakAreas
    \/ EvalKeyPair

CalcSpec == CalcInit /\ [][CalcNext]_vars

(***************************************************************************)
(* FileUpload: the files accepted by the upload control.                    *)
(***************************************************************************)
MAX_FILES == 5

MAX_SIZE_MB == 10

\* MAX_SIZE_MB * 1024 * 1024
MaxSizeBytes == MAX_SIZE_MB * 1024 * 1024

\* The largest number of files of one selection.
MaxSelected == 2

\* File names, as their pieces between dots with the dots: 'notes.pdf',
\* 'notes.TXT', 'notes.pdf.exe', and 'docx' (a name without a dot).
FileNames ==
    { << "notes", ".", "pdf" >>, << "notes", ".", "TXT" >>,
      << "notes", ".", "pdf", ".", "exe" >>, << "docx" >> }

\* The sizes of the files selected, in bytes: the limit and one byte more.
FileSizes == { MaxSizeBytes, MaxSizeBytes + 1 }

FileObjects == [name : FileNames, size : FileSizes]

\* name.split('.'): the pieces between the dots; a name without a dot is one
\* piece.
RECURSIVE split(_)
split(name) ==
    IF \A i \in DOMAIN name : name[i] # "."
    THEN << name >>
    ELSE LET d == CHOOSE i \in DOMAIN name :
                     name[i] = "." /\ \A j \in 1..(i - 1) : name[j] # "."
         IN << SubSeq(name, 1, d - 1) >> \o split(SubSeq(name, d + 1, Len(name)))

\* arr.pop(): the last element.
pop(arr) == arr[Len(arr)]

\* piece.toLowerCase(), for a name piece of at most one word.
toLowerCase(piece) ==
    [i \in DOMAIN piece |-> IF piece[i] = "TXT" THEN "txt" ELSE piece[i]]

validExts == { << "pdf" >>, << "docx" >>, << "txt" >> }

\* validateFile(file): the errors of the file, the type first.
validateFile(file) ==
    LET ext == toLowerCase(pop(split(file.name)))
    IN (IF ext \notin validExts THEN << [file |-> file.name, error |-> "type"] >> ELSE <<>>)
       \o (IF file.size > MaxSizeBytes
           THEN << [file |-> file.name, error |-> "size"] >> ELSE <<>>)

\* selectedFiles.forEach(...): the files without an error, in their order.
validFiles(selectedFiles) ==
    SelectSeq(selectedFiles, LAMBDA f : validateFile(f) = <<>>)

\* selectedFiles.forEach(...): the errors of the files, in their order.
RECURSIVE newErrors(_)
newErrors(selectedFiles) ==
    IF selectedFiles = <<>> THEN <<>>
    ELSE validateFile(Head(selectedFiles)) \o newErrors(Tail(selectedFiles))

\* handleFileSelect: the learner has chosen files in the file dialog.
handleFileSelect ==
    /\ \E selectedFiles \in UNION { [1..n -> FileObjects] : n \in 0..MaxSelected } :
          IF Len(files) + Len(selectedFiles) > MAX_FILES
          THEN /\ errors' = << [file |-> <<>>, error |-> "count"] >>
               /\ UNCHANGED files
          ELSE /\ files' = files \o validFiles(selectedFiles)
               /\ errors' = newErrors(selectedFiles)
    /\ UNCHANGED <<clientVars, calc, serverVars>>

\* removeFile(index): the learner removes a file of the list.
removeFile ==
    /\ \E index \in 0..(Len(files) - 1) :
          files' = [i \in 1..(Len(files) - 1) |-> IF i <= index THEN files[i] ELSE files[i + 1]]
    /\ errors' = <<>>
    /\ UNCHANGED <<clientVars, calc, serverVars>>

UploadInit ==
    /\ ClientInitial
    /\ calc = CalcIdle
    /\ ServerIdle
    /\ UploadIdle

UploadNext ==
    \/ handleFileSelect
    \/ removeFile

UploadSpec == UploadInit /\ [][UploadNext]_vars

(***************************************************************************)
(* The states of the session, in the words of its design.                   *)
(***************************************************************************)
Presenting(i) == CardRendered /\ ~showFeedback /\ currentIndex = i
Feedback(i) == CardRendered /\ showFeedback /\ currentIndex = i
Completed == page = "results"

\* The letters of the option positions, as the design names them.
Letters == << "A", "B", "C", "D" >>

\* The question of the quiz, as the backend sent it, that question q was made from.
RawQuestion(q) ==
    IF q.id[1] = "w" THEN quiz[1].wrong_answers[q.id[2]]
    ELSE quiz[1].extra_questions[q.id[2]]

\* The truth value a stored true/false answer stands for.
RawIsTrue(v) == v \in {JsBool(TRUE), JsStr("True")}

(***************************************************************************)
(* The claims.                                                              *)
(***************************************************************************)
\* C1: whenever the session is presenting question i+1, an AnswerRecord
\* exists for index i.
C1_AnswerBeforeNext ==
    \A i \in 0..MaxQuestions : Presenting(i + 1) => i \in DOMAIN answers

\* The session presents the second question, the first one answered.
C1_Witness == Presenting(1) /\ 0 \in DOMAIN answers /\ event.kind = "next"

\* C2: a submit, or a change of selection, attempted in Feedback(i) changes
\* neither the AnswerRecord at i (nor any other), nor current_index, nor the
\* selection, and the session stays in Feedback(i).
C2_FeedbackRejectsSubmit ==
    [][(page = "quiz" /\ showFeedback /\ event'.kind \in {"submit", "select"})
         => /\ answers' = answers
            /\ currentIndex' = currentIndex
            /\ selectedAnswer' = selectedAnswer
            /\ showFeedback'
            /\ page' = "quiz"
            /\ result' = result]_vars

\* An answer button was pressed while feedback was shown.
C2_Witness ==
    /\ Feedback(currentIndex) /\ event.kind = "select"
    /\ currentIndex \in DOMAIN answers
    /\ answers[currentIndex].selected # OptionButtons[event.arg + 1]

\* C3: an advance attempted in Presenting(i) changes neither current_index,
\* nor the answers, nor the selection, nor the state, and emits no result.
C3_PresentingRejectsAdvance ==
    [][(page = "quiz" /\ ~showFeedback /\ event'.kind = "next")
         => /\ UNCHANGED sessionVars
            /\ page' = "quiz"
            /\ result' = result]_vars

\* An advance was attempted on the first question with an answer selected
\* and not submitted.
C3_Witness ==
    /\ Presenting(0) /\ event.kind = "next"
    /\ selectedAnswer # JsNull /\ answers = NoAnswers /\ result = Undefined

\* C4: an advance from Feedback(i) moves to Presenting(i+1) when i+1 < total
\* and to Completed otherwise, and the result handed over at Completed holds
\* one AnswerRecord for every index 0..total-1 and no other.
C4_AdvanceFromFeedback ==
    [][(page = "quiz" /\ showFeedback /\ event'.kind = "next")
         => IF currentIndex + 1 < totalQuestions
            THEN /\ page' = "quiz" /\ result' = Undefined
                 /\ currentIndex' = currentIndex + 1
                 /\ ~showFeedback'
                 /\ currentIndex' < Len(questions')
            ELSE /\ page' = "results"
                 /\ result' # Undefined
                 /\ DOMAIN result'[1].answers = 0..(totalQuestions - 1)
                 /\ Cardinality(DOMAIN result'[1].answers) = totalQuestions]_vars

\* A session of two questions is completed with two AnswerRecords.
C4_Witness ==
    /\ Completed /\ Len(questions) = 2
    /\ DOMAIN result[1].answers = {0, 1}

\* C5: current_index never decreases; it changes only by an advance, by
\* exactly one.
C5_IndexMonotone ==
    [][page = "quiz"
         => /\ currentIndex' >= currentIndex
            /\ currentIndex' # currentIndex
                  => (event'.kind = "next" /\ currentIndex' = currentIndex + 1)]_vars

\* The session has advanced to the second question and events followed.
C5_Witness == page = "quiz" /\ currentIndex = 1 /\ event.kind = "submit" /\ showFeedback

\* C6: for a multiple-choice question, pressing the option at position k
\* selects the letter of k (A for 0, B for 1, ...), and the record of a
\* submitted letter is correct exactly when the letter is the correct_answer
\* the quiz holds for the question; the option texts play no part.
C6_McqScoredByLetter ==
    /\ [][(CardRendered /\ ~showFeedback /\ currentQuestion.type = "mcq"
            /\ event'.kind = "select")
             => selectedAnswer' = JsStr(Letters[event'.arg + 1])]_vars
    /\ [](\A i \in DOMAIN answers :
            questions[i + 1].type = "mcq"
              => /\ answers[i].selected \in
                       { JsStr(Letters[k]) : k \in 1..Len(RawQuestion(questions[i + 1]).options[1]) }
                 /\ answers[i].isCorrect
                       = (answers[i].selected = RawQuestion(questions[i + 1]).correct_answer))

\* A multiple-choice answer is recorded as correct for the option at position
\* 0 (letter A) whose text came labelled "B)".
C6_Witness ==
    \E i \in DOMAIN answers :
        /\ questions[i + 1].type = "mcq"
        /\ RawQuestion(questions[i + 1]).options[1][1] = OptB
        /\ questions[i + 1].options[1] = << "y" >>
        /\ answers[i].selected = JsStr("A")
        /\ answers[i].isCorrect

\* C7: for a true/false question, the record of a submitted 'True' is
\* correct exactly when the correct answer the quiz holds is true, and that
\* of a submitted 'False' exactly when it is false, whether the quiz holds it
\* as a boolean or as the string 'True' / 'False'.
C7_TrueFalseScoredByTruth ==
    \A i \in DOMAIN answers :
        questions[i + 1].type = "true_false"
          => answers[i].isCorrect
               = ((answers[i].selected = JsStr("True"))
                    = RawIsTrue(RawQuestion(questions[i + 1]).correct_answer))

\* Occurrences of the question with identity id in the presentation order.
Places(id) == { j \in 1..Len(questions) : questions[j].id = id }

\* C8: the presentation order holds every review question and every extra
\* question of the quiz exactly once and nothing else, and no event of the
\* session changes it.
C8_OrderIsFixedPermutation ==
    /\ []((page \in {"quiz", "results"} /\ ~effectPending)
            => /\ Len(questions) = Len(quiz[1].wrong_answers) + Len(quiz[1].extra_questions)
               /\ \A n \in 1..Len(quiz[1].wrong_answers) :
                     /\ Cardinality(Places(quiz[1].wrong_answers[n].question_id)) = 1
                     /\ \A j \in Places(quiz[1].wrong_answers[n].question_id) :
                           questions[j] = PrepareWrongAnswer(quiz[1].wrong_answers[n])
               /\ \A n \in 1..Len(quiz[1].extra_questions) :
                     /\ Cardinality(Places(quiz[1].extra_questions[n].id)) = 1
                     /\ \A j \in Places(quiz[1].extra_questions[n].id) :
                           questions[j] = PrepareExtra(quiz[1].extra_questions[n]))
    /\ [][(page = "quiz" /\ ~effectPending)
             => (questions' = questions /\ (result' # Undefined => result'[1].questions = questions))]_vars

\* A session over two questions, presented in the reverse of the stored
\* order, has advanced to its second question.
C8_Witness ==
    /\ Presenting(1) /\ Len(questions) = 2
    /\ questions[1] = AllQuestions(quiz[1])[2]
    /\ questions[2] = AllQuestions(quiz[1])[1]

\* C9: every record of the final result is the record stored when its
\* question was submitted, the last question's included; a stored record
\* never changes.
C9_RecordsComputedOnce ==
    /\ [](Completed
            => \A i \in 0..(Len(questions) - 1) :
                  i \in DOMAIN answers /\ result[1].answers[i] = answers[i])
    /\ [][\A i \in DOMAIN answers :
             i \in DOMAIN answers' /\ answers'[i] = answers[i]]_vars

\* A session of two questions is completed; its last answer was correct.
C9_Witness ==
    /\ Completed /\ Len(questions) = 2
    /\ result[1].answers[1].isCorrect /\ ~result[1].answers[0].isCorrect

\* C10: while the quiz page is mounted no step changes the quiz, none sends
\* a request to the backend, and a result is emitted only by the advance out
\* of Feedback(total - 1).
C10_NoSideEffectBeforeCompleted ==
    [][page = "quiz"
         => /\ quiz' = quiz
            /\ request' = "none"
            /\ result' # result
                  => (Feedback(totalQuestions - 1) /\ event'.kind = "next" /\ page' = "results")
            /\ page' = "quiz" => result' = Undefined]_vars

\* The session has advanced past its first question: no result, no request,
\* and the quiz lists are as they were stored.
C10_Witness ==
    /\ Presenting(1) /\ event.kind = "next"
    /\ result = Undefined /\ request = "none"
    /\ Len(quiz[1].wrong_answers) = 1 /\ Len(quiz[1].extra_questions) = 1
    /\ questions[1].source = "extra"

\* C11: in every completed session the aggregated correct count is the sum of
\* the correct counts of the two sources (review questions and extra
\* questions), and the total is the sum of the totals of the two sources.
C11_SourcesAddUp ==
    ResultsRendered =>
        /\ correctCount = wrongAnswerCorrect + extraCorrect
        /\ ResultsTotalQuestions = Len(wrongAnswerQuestions) + Len(extraQuestions)

\* A completed session with questions of both sources, the first shown being an
\* extra question answered correctly and a review question answered wrongly.
C11_Witness ==
    /\ ResultsRendered
    /\ Len(wrongAnswerQuestions) >= 1 /\ Len(extraQuestions) >= 1
    /\ resultQuestions[1].source = "extra"
    /\ extraCorrect = 1 /\ wrongAnswerCorrect = 0
    /\ correctCount = 1

\* C12: for 0 <= correct_count <= total and total >= 1 the percent is
\* correct_count * 100 / total rounded to the nearest integer, within 0..100,
\* and the band is decided on the rounded percent: excellent from 80, good from
\* 60 to 79, practice_more below 60.
C12_PercentAndBand ==
    Returned("score") =>
        LET c == calc.in[1]
            t == calc.in[2]
            p == calc.out[1].percent
            dist == IF p * t >= 100 * c THEN p * t - 100 * c ELSE 100 * c - p * t
        IN /\ p \in 0..100
           /\ 2 * dist <= t
           /\ (p >= 80) <=> (calc.out[1].message = "Excellent improvement!")
           /\ (p >= 60 /\ p <= 79) <=> (calc.out[1].message = "Good progress!")
           /\ (p < 60) <=> (calc.out[1].message = "Keep practicing!")

\* 35 of 44 is 79.5...%: the percent is 80 and the band is the one of 80, though
\* the exact ratio is below 80.
C12_Witness ==
    /\ Returned("score")
    /\ calc.in = <<35, 44>>
    /\ calc.out[1].percent = 80
    /\ calc.out[1].message = "Excellent improvement!"

(***************************************************************************)
(* The requests of the mentor service, in the words of its design.          *)
(***************************************************************************)
RequestIds == DOMAIN reqs

Responded(r) == reqs[r].response # Undefined

SameTriple(r, s) == RequestTriple(reqs[r]) = RequestTriple(reqs[s])

\* The generation calls made for the triple t.
GenerationsFor(t) == { g \in genCalls : g.triple = t }

\* The wrong answers of a learner's weak areas, in chapter order.
RECURSIVE WrongAnswersOf(_)
WrongAnswersOf(weak_areas) ==
    IF weak_areas = <<>> THEN <<>>
    ELSE Head(weak_areas).wrong_answers \o WrongAnswersOf(Tail(weak_areas))

\* The texts of the wrong_answer-sourced questions of a quiz, in its order.
ReviewTexts(qz) ==
    LET review == SelectSeq(qz.questions, LAMBDA q : q.source = "wrong_answer")
    IN [i \in 1..Len(review) |-> review[i].question_text]

\* C13: given an identical (course_slug, weak_areas_key, include_hints), a
\* compose call made after another has returned finds its quiz (cache_hit =
\* true) and returns the same question list, in storage order.
C13_SecondComposeHits ==
    /\ [][\A r, s \in RequestIds :
            (r # s /\ Responded(s) /\ SameTriple(r, s)
             /\ reqs[r].pc = "lookup" /\ reqs'[r].pc # "lookup")
            => /\ reqs'[r].pc = "feedback"
               /\ reqs'[r].cached_quiz = Some(reqs[s].response[1].quiz)]_vars
    /\ [](\A r \in RequestIds :
            (reqs[r].pc = "done" /\ reqs[r].cached_quiz # Undefined)
            => reqs[r].response = Some([quiz |-> reqs[r].cached_quiz[1], cached |-> TRUE]))

\* One learner's request was answered by a generated quiz, and a later request
\* of another learner for the same triple by that quiz from the cache.
C13_Witness ==
    \E r, s \in RequestIds :
        /\ r # s /\ SameTriple(r, s) /\ reqs[r].user # reqs[s].user
        /\ Responded(s) /\ ~reqs[s].response[1].cached
        /\ Responded(r) /\ reqs[r].response[1].cached
        /\ reqs[r].response[1].quiz.questions = reqs[s].response[1].quiz.questions

\* C14: when the lookup finds a stored quiz the request returns it with
\* cache_hit = true, and makes no generation call and no store, whatever its
\* max_extra_questions.
C14_HitGeneratesNothing ==
    \A r \in RequestIds :
        reqs[r].cached_quiz # Undefined
        => /\ reqs[r].gen_calls = 0 /\ reqs[r].saves = 0
           /\ ~ \E g \in genCalls : g.by = r
           /\ reqs[r].pc \in { "feedback", "done" }
           /\ reqs[r].pc = "done"
              => reqs[r].response = Some([quiz |-> reqs[r].cached_quiz[1], cached |-> TRUE])

\* A request asking for 15 questions was answered from the cache by the quiz a
\* request asking for none had stored.
C14_Witness ==
    \E r, s \in RequestIds :
        /\ Responded(r) /\ reqs[r].response[1].cached /\ reqs[r].max_questions = 15
        /\ Responded(s) /\ ~reqs[s].response[1].cached /\ reqs[s].max_questions = 0
        /\ reqs[r].response[1].quiz = reqs[s].response[1].quiz

\* C15: under any interleaving of concurrent requests the store never holds
\* more than one quiz of a triple, and every request of the triple that is
\* served (its generation did not fail) returns that stored quiz.
C15_RacersShareStoredQuiz ==
    /\ \A d1, d2 \in store : TripleOf(d1) = TripleOf(d2) => d1 = d2
    /\ \A r \in RequestIds :
          (reqs[r].pc \in { "done", "failed" } /\ reqs[r].error # Some("GenerationFailure"))
          => /\ Responded(r)
             /\ reqs[r].response[1].quiz \in store
             /\ TripleOf(reqs[r].response[1].quiz) = RequestTriple(reqs[r])

\* C16: a store conflict is never surfaced as an error: a request whose store
\* was attempted ends with a response, not with an error.
C16_ConflictNotSurfaced ==
    \A r \in RequestIds :
        (reqs[r].saves > 0 /\ reqs[r].pc \in { "done", "failed" })
        => reqs[r].error = Undefined /\ Responded(r)

\* C17 as stated: at most two generation calls are made for a triple, however
\* many requests race.
C17_AtMostTwoGenerations ==
    \A r \in RequestIds : Cardinality(GenerationsFor(RequestTriple(reqs[r]))) <= 2

\* C17, amended: a request makes at most one generation call, so the number of
\* generation calls made for a triple is at most the number of requests of the
\* triple, and at most one of the generated quizzes is stored.
C17_OneGenerationPerRequest ==
    /\ \A r \in RequestIds : reqs[r].gen_calls <= 1
    /\ \A g \in genCalls :
          /\ g.by \in RequestIds /\ g.call = 1
          /\ g.triple = RequestTriple(reqs[g.by])
    /\ \A g1, g2 \in genCalls : g1.by = g2.by => g1 = g2
    /\ \A d1, d2 \in store : TripleOf(d1) = TripleOf(d2) => d1.questions = d2.questions

\* Three requests of one triple have each made a generation call.
C17_Witness ==
    \E r \in RequestIds :
        /\ Cardinality(GenerationsFor(RequestTriple(reqs[r]))) = 3
        /\ \A s \in RequestIds : SameTriple(r, s) => reqs[s].gen_calls = 1

\* C18: the wrong_answer-sourced questions of the quiz a request returns are,
\* one for one, the wrong answers of the requesting learner's weak areas, on a
\* miss and on a hit alike.
C18_ReviewIsRequesters ==
    \A r \in RequestIds :
        Responded(r)
        => ReviewTexts(reqs[r].response[1].quiz) = WrongAnswersOf(WeakAreasOf(reqs[r].user))

\* C19: the weak-areas key is the same for two inputs of the same chapter
\* numbers, whatever their order and however often a chapter number is
\* repeated.
C19_KeyOfChapterSet ==
    Returned("key") => calc.out[1][1] = calc.out[1][2]

\* C20: mentor_available is true exactly when the number of distinct chapter
\* numbers having at least one answer reaches the chapters threshold; records
\* with no answers and repeated records of a chapter do not raise the count.
C20_AvailableIffThreshold ==
    Returned("available") =>
        LET answered == { i \in DOMAIN calc.in : calc.in[i].answers # <<>> }
            distinct == { calc.in[i].chapter_number : i \in answered }
        IN /\ calc.out[1].total_chapters_completed = Cardinality(distinct)
           /\ calc.out[1].mentor_available
                 <=> (Cardinality(distinct) >= mentor_chapters_threshold)

\* Four records, three of them answered, over two distinct answered chapters:
\* the mentor is not available; and the threshold is a count that is reached.
C20_Witness ==
    /\ Returned("available")
    /\ Len(calc.in) = 4
    /\ Cardinality({ i \in DOMAIN calc.in : calc.in[i].answers # <<>> }) = 3
    /\ calc.out[1].total_chapters_completed = 2
    /\ ~calc.out[1].mentor_available

\* The documents of the triple t in the collection st.
Found(st, t) == { d \in st : TripleOf(d) = t }

\* Request r takes its step from the place pc.
Leaves(r, pc) == reqs[r].pc = pc /\ reqs'[r] # reqs[r]

OfSource(qs, source) == SelectSeq(qs, LAMBDA q : q.source = source)

C23_GenerateOnlyWhenAvailable ==
    request = "generateQuiz" => (analysis # Undefined /\ analysis[1].mentor_available)

\* C24: once a quiz is stored for a triple, what a lookup of the triple finds
\* never changes and never becomes absent: a save on the triple is refused with
\* a conflict and leaves the stored quiz as it was.
C24_StoredQuizFixed ==
    [][/\ \A d \in store : Found(store', TripleOf(d)) = {d}
       /\ \A r \in RequestIds :
            (Leaves(r, "save") /\ Found(store, RequestTriple(reqs[r])) # {})
            => /\ reqs'[r].error = Some("DuplicateKeyError")
               /\ store' = store]_vars

\* A request's save was refused, and the store holds the other quiz of the triple.
C24_Witness ==
    \E r \in RequestIds :
        /\ reqs[r].error = Some("DuplicateKeyError")
        /\ \E d \in store :
              /\ Found(store, RequestTriple(reqs[r])) = {d}
              /\ d # reqs[r].new_quiz[1]

\* The quiz d is the one of request q but for the hints flag.
OtherHints(d, q) ==
    /\ d.course_slug = q.course_slug /\ d.weak_areas_key = q.weak_areas_key
    /\ d.include_hints # q.include_hints

\* The store holds a quiz of the very triple of request q.
HoldsFor(q) ==
    \E d \in store :
        /\ d.course_slug = q.course_slug /\ d.weak_areas_key = q.weak_areas_key
        /\ d.include_hints = q.include_hints

\* C25: include_hints is a component of the cache identity of its own: a quiz
\* stored with hints on is never found by a lookup with hints off, or the
\* reverse, and storing the one does not conflict with storing the other.
C25_HintsSeparate ==
    /\ [](\A r \in RequestIds :
            reqs[r].cached_quiz # Undefined
            => reqs[r].cached_quiz[1].include_hints = reqs[r].include_hints)
    /\ [][\A r \in RequestIds :
            /\ (Leaves(r, "lookup") /\ ~HoldsFor(reqs[r]))
               => reqs'[r].cached_quiz = Undefined
            /\ (Leaves(r, "save") /\ ~HoldsFor(reqs[r]))
               => /\ reqs'[r].error = Undefined
                  /\ store' = store \cup { reqs[r].new_quiz[1] }]_vars

\* A quiz was stored for a key with hints while the store held the quiz of the
\* same key without hints, and a request without hints was then answered by
\* the quiz without hints.
C25_Witness ==
    \E r, s \in RequestIds :
        /\ Responded(s) /\ ~reqs[s].response[1].cached /\ reqs[s].include_hints
        /\ \E d \in store : OtherHints(d, reqs[s])
        /\ Responded(r) /\ reqs[r].response[1].cached /\ ~reqs[r].include_hints
        /\ reqs[r].weak_areas_key = reqs[s].weak_areas_key

\* C26: a submit in Presenting(i) with no option selected is rejected: no
\* AnswerRecord is written and the session stays in Presenting(i); and each
\* newly presented question starts with no selection, so the selection made
\* for question i is never submitted for question i+1.
C26_NoSelectionNoSubmit ==
    [][/\ (Presenting(currentIndex) /\ selectedAnswer = JsNull /\ event'.kind = "submit")
          => /\ UNCHANGED sessionVars
             /\ page' = "quiz"
             /\ result' = result
       /\ (page' = "quiz" /\ (page # "quiz" \/ currentIndex' # currentIndex))
          => selectedAnswer' = JsNull /\ ~showFeedback']_vars

\* A submit was attempted on the second question before any option of it was
\* selected: the first question has its record, the second has none.
C26_Witness ==
    /\ Presenting(1) /\ event.kind = "submit"
    /\ selectedAnswer = JsNull
    /\ DOMAIN answers = {0}

\* C27: for every progress history, weak_areas lists, in strictly ascending
\* chapter_number order, exactly the chapters that have at least one answer and
\* a score strictly below the weak score threshold; a chapter whose score
\* equals the threshold, or that has no answers, is not listed.
C27_WeakAreasExact ==
    Returned("weak_areas") =>
        LET h == calc.in
            weak_areas == calc.out[1]
            listed == { weak_areas[k].chapter_number : k \in DOMAIN weak_areas }
        IN /\ \A j, k \in DOMAIN weak_areas :
                j < k => weak_areas[j].chapter_number < weak_areas[k].chapter_number
           /\ listed = { h[i].chapter_number : i \in
                           { n \in DOMAIN h : /\ h[n].answers # <<>>
                                              /\ h[n].score < mentor_weak_score_threshold } }
           /\ \A i \in DOMAIN h :
                (h[i].score = mentor_weak_score_threshold \/ h[i].answers = <<>>)
                    => h[i].chapter_number \notin listed

\* Three chapters given in descending order: two are listed, ascending, and the
\* answered one whose score is the threshold itself is not.
C27_Witness ==
    /\ Returned("weak_areas")
    /\ Len(calc.in) = 3
    /\ calc.in[1].chapter_number > calc.in[2].chapter_number
    /\ calc.in[2].chapter_number > calc.in[3].chapter_number
    /\ \E i \in 1..3 : /\ calc.in[i].score = mentor_weak_score_threshold
                       /\ calc.in[i].answers # <<>>
    /\ Len(calc.out[1]) = 2

C29_NoExtrasNoGeneration ==
    \A r \in RequestIds :
        /\ reqs[r].max_questions = 0 => reqs[r].gen_calls = 0
        /\ reqs[r].new_quiz # Undefined
           => Len(OfSource(reqs[r].new_quiz[1].questions, "extra")) <= reqs[r].max_questions

\* C30: each compose attempt invokes the generation capability at most once:
\* a generation failure is propagated without a retry, and a request that
\* met a store conflict does not generate again.
C30_OneGenerationPerAttempt ==
    [][\A r \in RequestIds :
          /\ reqs'[r].gen_calls # reqs[r].gen_calls
             => /\ reqs[r].gen_calls = 0 /\ reqs'[r].gen_calls = 1
                /\ reqs[r].error = Undefined /\ reqs[r].saves = 0
          /\ reqs[r].error # Undefined
             => /\ reqs'[r] = reqs[r]
                /\ reqs[r].gen_calls = 1]_vars

\* One request ended in GenerationFailure and another in a store conflict,
\* each after its single generation call.
C30_Witness ==
    \E r, s \in RequestIds :
        /\ reqs[r].error = Some("GenerationFailure") /\ reqs[r].gen_calls = 1
        /\ reqs[s].error = Some("DuplicateKeyError") /\ reqs[s].gen_calls = 1
        /\ reqs[r].pc = "failed" /\ reqs[s].pc = "failed"

\* C31: with weak_areas empty, the key derived is the empty string, and the
\* quiz composed holds no review question and between 0 and
\* max_extra_questions extra questions; the lack of weak concepts does not
\* make the compose fail.
C31_EmptyWeakAreas ==
    (Returned("compose") /\ calc.in.weak_areas = <<>>)
    => /\ calc.out[1].weak_areas_key = <<>>
       /\ ~calc.in.response.raised
          => /\ ~calc.out[1].failed
             /\ OfSource(calc.out[1].questions, "wrong_answer") = <<>>
             /\ calc.out[1].questions = calc.in.response.items
             /\ Len(calc.out[1].questions) <= calc.in.max_extra_questions

\* Extras were asked for, there is no weak area and the generation returned
\* nothing: the compose succeeds with an empty quiz under the empty key.
C31_Witness ==
    /\ Returned("compose") /\ calc.in.weak_areas = <<>>
    /\ calc.in.max_extra_questions = MaxExtra
    /\ ~calc.in.response.raised /\ calc.in.response.items = <<>>
    /\ ~calc.out[1].failed
    /\ calc.out[1].weak_areas_key = <<>>

\* C32: for every quiz with n >= 1 questions, a learner who always eventually
\* selects one of the offered options, submits and advances reaches Completed
\* after n submits and n advances; no question, multiple-choice or true/false,
\* leaves the session stuck in Presenting.  A Presenting state is left only by
\* a submit, and a submit needs a selection, so in every Presenting state the
\* card must offer an option to select, and the records made so far are as
\* many as the advances made.
C32_NoQuestionSticks ==
    \A i \in 0..MaxQuestions :
        Presenting(i)
        => /\ selectedAnswer = JsNull => Len(OptionButtons) > 0
           /\ Cardinality(DOMAIN answers) = i

\* The records of the questions of one source that are correct, by position in
\* the presentation order.
CorrectOfSource(qs, as, source) ==
    { i \in DOMAIN as : qs[i + 1].source = source /\ as[i].isCorrect }

\* C33: for every recorded index i the record's correct value is the
\* correct_answer of the question at position i of the presentation order, and
\* the results page attributes the record to that same question (its source
\* and identity), so a record is never scored or counted against another
\* question than the one shown.
C33_RecordOfShownQuestion ==
    /\ page = "quiz"
       => \A i \in DOMAIN answers :
             /\ i + 1 \in DOMAIN questions
             /\ answers[i].correct = questions[i + 1].correct_answer
             /\ answers[i].isCorrect = StrictEq(answers[i].selected,
                                                questions[i + 1].correct_answer)
    /\ ResultsRendered
       => /\ \A i \in DOMAIN resultAnswers :
                /\ i + 1 \in DOMAIN resultQuestions
                /\ resultAnswers[i].correct = resultQuestions[i + 1].correct_answer
                /\ resultAnswers[i].isCorrect = StrictEq(resultAnswers[i].selected,
                                                         resultQuestions[i + 1].correct_answer)
          /\ \A k \in DOMAIN wrongAnswerQuestions :
                resultQuestions[originalIdx(wrongAnswerQuestions[k], k - 1) + 1]
                    = wrongAnswerQuestions[k]
          /\ \A k \in DOMAIN extraQuestions :
                resultQuestions[originalIdx(extraQuestions[k], k - 1) + 1] = extraQuestions[k]
          /\ wrongAnswerCorrect
                = Cardinality(CorrectOfSource(resultQuestions, resultAnswers, "wrong_answer"))
          /\ extraCorrect
                = Cardinality(CorrectOfSource(resultQuestions, resultAnswers, "extra"))

\* A completed session of two questions with different correct answers, the
\* second shown being a review question answered correctly, the first an
\* extra question answered wrongly.
C33_Witness ==
    /\ ResultsRendered /\ Len(resultQuestions) = 2
    /\ resultQuestions[1].correct_answer # resultQuestions[2].correct_answer
    /\ resultQuestions[1].source = "extra" /\ resultQuestions[2].source = "wrong_answer"
    /\ ~resultAnswers[0].isCorrect /\ resultAnswers[1].isCorrect
    /\ wrongAnswerCorrect = 1 /\ extraCorrect = 0

\* C34: in every reachable session state the answers mapping has records for
\* exactly the indices 0..i-1 while in Presenting(i) and exactly 0..i while in
\* Feedback(i); no index greater than current_index ever has a record and no
\* index below it lacks one.
C34_AnswersDomain ==
    \A i \in 0..MaxQuestions :
        /\ Presenting(i) => DOMAIN answers = 0..(i - 1)
        /\ Feedback(i) => DOMAIN answers = 0..i
        /\ (page = "quiz" /\ currentIndex = i)
           => /\ \A k \in DOMAIN answers : k <= i
              /\ \A k \in 0..(i - 1) : k \in DOMAIN answers

\* The second question is in feedback with the records of both questions, after
\* the first one was presented with none.
C34_Witness ==
    /\ Feedback(1) /\ DOMAIN answers = {0, 1}
    /\ Len(questions) = 2

\* C35: a session never hands a result with total = 0 to the results page: a
\* quiz with no review and no extra questions shows the no-questions state and
\* never reaches Completed, so the percent is always computed with a total of
\* at least 1.
C35_TotalAtLeastOne ==
    /\ (page = "quiz" /\ ~effectPending /\ Len(questions) = 0)
       => ~CardRendered /\ ~NextButtonRendered /\ result = Undefined
    /\ Completed => Len(AllQuestions(quiz[1])) >= 1
    /\ ResultsRendered
       => /\ ResultsTotalQuestions >= 1
          /\ correctCount <= ResultsTotalQuestions
          /\ scorePercent \in 0..100

\* A quiz without questions is shown as the no-questions state, where an
\* attempt to advance does nothing.
C35_NoQuestionsWitness ==
    /\ page = "quiz" /\ ~effectPending
    /\ Len(AllQuestions(quiz[1])) = 0 /\ Len(questions) = 0
    /\ event.kind = "next" /\ result = Undefined

\* C36: the weak-areas key is injective on sets of chapter numbers: two
\* weak-area inputs with different sets of chapter numbers (each >= 1) always
\* derive different keys.
C36_KeyInjective ==
    (/\ Returned("key_pair")
     /\ Range(ChapterNumbers(calc.in[1])) # Range(ChapterNumbers(calc.in[2])))
    => calc.out[1][1] # calc.out[1][2]

\* The chapters 1 and 2 against the chapter 12: the digits of the two keys are
\* the same, the keys are not.
C36_Witness ==
    /\ Returned("key_pair")
    /\ Range(ChapterNumbers(calc.in[1])) = {1, 2}
    /\ Range(ChapterNumbers(calc.in[2])) = {12}
    /\ Len(calc.in[1]) = 2
    /\ calc.out[1][1] = << "1", "-", "2" >>
    /\ calc.out[1][2] = << "1", "2" >>

\* C37: on the mentor page at most one generate-quiz request is in flight at
\* any time: while a request is pending the generate action is disabled, and
\* once a quiz has been received the generate action is no longer offered, so
\* a second request can only follow a failed one.
C37_OneRequestInFlight ==
    /\ [](/\ inFlight \in 0..1
          /\ inFlight = 1 => (generating /\ GenerateButtonDisabled /\ quiz = Undefined)
          /\ (page = "mentor" /\ quiz # Undefined) => ~GeneratePanelRendered)
    /\ [][inFlight' > inFlight
            => /\ inFlight = 0 /\ ~generating /\ quiz = Undefined
               /\ event.kind \in { "analysis", "option", "generate", "quizFailed", "start" }]_vars

\* A request is in flight with the analysis loaded and no quiz received; the
\* last gesture was a press of the generate button.
C37_Witness ==
    /\ page = "mentor" /\ inFlight = 1 /\ generating
    /\ event.kind = "generate" /\ error = Undefined
    /\ analysis # Undefined /\ quiz = Undefined

\* C38: when a generate-quiz request fails on the mentor page no quiz is set:
\* the error is recorded, the pending flag returns to false, the analysis
\* loaded before is kept, and a quiz session cannot be started (Start Quiz is
\* offered only when a quiz has been received).
C38_FailureSetsNoQuiz ==
    /\ [](/\ event.kind = "quizFailed"
             => /\ page = "mentor" /\ quiz = Undefined
                /\ error # Undefined /\ ~generating /\ inFlight = 0
                /\ analysis # Undefined
                /\ ~StartButtonRendered /\ GeneratePanelRendered
          /\ page \in { "quiz", "results" } => quiz # Undefined)
    /\ [][/\ event'.kind = "quizFailed" => (analysis' = analysis /\ quiz' = quiz)
          /\ (page = "mentor" /\ page' # "mentor")
             => (quiz # Undefined /\ event'.kind = "start")]_vars

\* The request has failed and the learner has pressed where Start Quiz would
\* be: the page is still the mentor page, with the error and without a quiz.
C38_Witness ==
    /\ page = "mentor" /\ event.kind = "start"
    /\ error = Some("Failed to generate quiz") /\ quiz = Undefined
    /\ analysis # Undefined /\ ~generating

\* The extension of a file name: what follows its last dot, in lower case;
\* a name without a dot has none.
Extension(name) ==
    IF \E i \in DOMAIN name : name[i] = "."
    THEN << toLowerCase(pop(split(name))) >>
    ELSE <<>>

\* C39: after any sequence of file selections and removals the accepted file
\* list holds at most 5 files, every file in it has extension pdf, docx or txt
\* and a size of at most 10 MB, and a selection that would bring the count
\* above 5 is rejected as a whole, leaving the list unchanged.
C39_AcceptedFiles ==
    /\ [](/\ Len(files) <= MAX_FILES
          /\ \A i \in DOMAIN files :
                /\ Extension(files[i].name) \in { << e >> : e \in validExts }
                /\ files[i].size <= MAX_SIZE_MB * 1024 * 1024)
    /\ [][Len(files') <= Len(files) + MaxSelected
          /\ (errors' = << [file |-> <<>>, error |-> "count"] >>) => files' = files]_vars

====
